---- MODULE Spec2Model ----
(***************************************************************************)
(* The ingestion pipeline of assessment.ipynb: run_all() calls process(ds) *)
(* for four datasets; process streams the sorted source files of a dataset *)
(* into <ds>.json.gz.part, checkpoints after every file in <ds>.ckpt and   *)
(* renames the part-file to <ds>.json.gz at the end.                       *)
(*                                                                         *)
(* Text (file names, column names) is a sequence of one-character strings, *)
(* compared as Python compares str: by code point, a proper prefix first.  *)
(***************************************************************************)
EXTENDS Integers, Sequences, FiniteSets, TLC

\* Python's None / a file that does not exist is the empty tuple; a value
\* that is there is the one-tuple of it
None == << >>
Some(x) == << x >>
Val(o) == o[1]

(***************************************************************************)
(* Text                                                                    *)
(***************************************************************************)

\* The characters used, in code-point order (" " < "." < digits < upper
\* case < "_" < lower case).
Alphabet ==
    << " ", ".", "1", "C", "J", "N", "O", "S", "V", "_",
       "a", "b", "c", "d", "i", "j", "n", "o", "s", "t", "v", "x" >>

Ord(c) == CHOOSE i \in 1..Len(Alphabet) : Alphabet[i] = c

RECURSIVE StrLess(_, _)
StrLess(s, t) ==
    IF t = << >> THEN FALSE
    ELSE IF s = << >> THEN TRUE
    ELSE IF Head(s) # Head(t) THEN Ord(Head(s)) < Ord(Head(t))
    ELSE StrLess(Tail(s), Tail(t))

StrLeq(s, t) == s = t \/ StrLess(s, t)

\* str.lower() of one character
LowerChar(c) ==
    CASE c = "C" -> "c" [] c = "J" -> "j" [] c = "N" -> "n"
      [] c = "O" -> "o" [] c = "S" -> "s" [] c = "V" -> "v"
      [] OTHER -> c

Lower(s) == [i \in 1..Len(s) |-> LowerChar(s[i])]

\* str.strip(): leading and trailing white space removed
RECURSIVE LStrip(_)
LStrip(s) == IF s # << >> /\ Head(s) = " " THEN LStrip(Tail(s)) ELSE s

RECURSIVE RStrip(_)
RStrip(s) ==
    IF s # << >> /\ s[Len(s)] = " " THEN RStrip(SubSeq(s, 1, Len(s) - 1)) ELSE s

Strip(s) == RStrip(LStrip(s))

\* the index of the last "." of s, 0 when there is none
LastDot(s) ==
    LET D == {i \in 1..Len(s) : s[i] = "."}
    IN  IF D = {} THEN 0 ELSE CHOOSE i \in D : \A j \in D : j <= i

\* pathlib's Path.suffix: the name from its last "." on, unless that "." is
\* the first or the last character of the name
Suffix(name) ==
    LET i == LastDot(name)
    IN  IF 1 < i /\ i < Len(name) THEN SubSeq(name, i, Len(name)) ELSE << >>

\* Python's `a in b` for two str: a is a substring of b
IsSubstring(a, b) ==
    \E i \in 0..(Len(b) - Len(a)) : SubSeq(b, i + 1, i + Len(a)) = a

\* k.split(".")[-1]
LastSegment(k) == SubSeq(k, LastDot(k) + 1, Len(k))

(***************************************************************************)
(* Records                                                                 *)
(*                                                                         *)
(* A record (a Python dict) is a sequence of <<key, value>> pairs with     *)
(* distinct keys, in insertion order.                                      *)
(***************************************************************************)

Keys(rec) == {rec[i][1] : i \in 1..Len(rec)}

\* mutant of DictSet: a key that is present keeps its value
DictSet_KeepsFirst(out, k, v) ==
    IF k \in Keys(out) THEN out ELSE Append(out, <<k, v>>)

\* out[k] = v on a dict: a present key keeps its place and takes the value,
\* a new key is appended
DictSet(out, k, v) ==
    IF k \in Keys(out)
    THEN [i \in 1..Len(out) |-> IF out[i][1] = k THEN <<k, v>> ELSE out[i]]
    ELSE Append(out, <<k, v>>)

\* mutant of clean_cols: the keys are kept as they are
clean_cols_Raw(rec) == rec

RECURSIVE CleanFrom(_, _)
CleanFrom(out, rec) ==
    IF rec = << >> THEN out
    ELSE CleanFrom(DictSet(out, LastSegment(Head(rec)[1]), Head(rec)[2]), Tail(rec))

clean_cols(rec) == CleanFrom(<< >>, rec)

\* the pairs of rec in ascending key order
RECURSIVE SortByKey(_)
SortByKey(rec) ==
    IF rec = << >> THEN << >>
    ELSE LET i == CHOOSE i \in 1..Len(rec) :
                      \A j \in 1..Len(rec) : StrLeq(rec[i][1], rec[j][1])
             rest == [j \in 1..(Len(rec) - 1) |-> IF j < i THEN rec[j] ELSE rec[j + 1]]
         IN  <<rec[i]>> \o SortByKey(rest)

\* json.dumps(rec, sort_keys=...): the text of a dict is determined by its
\* pairs in the order they are written
JsonDumps(rec, sort_keys) == IF sort_keys THEN SortByKey(rec) ELSE rec

\* mutant of row_hash: the keys are not sorted before hashing
row_hash_Unsorted(rec) == JsonDumps(rec, FALSE)

\* sha1 is taken as collision free: the digest stands for the text digested
row_hash(rec) == JsonDumps(rec, TRUE)

(***************************************************************************)
(* Source data                                                             *)
(*                                                                         *)
(* A folder is the set of its files, each a name and lines.  A line of a   *)
(* file is a row or a JSON object ("obj", with the record it holds), text that  *)
(* is not JSON ("bad"), white space only ("blank"), or JSON that is not an *)
(* object, such as [1] ("nonobj").  File names carry no white space at     *)
(* either end, so that the name save_ckpt writes is the name load_ckpt     *)
(* reads back.                                                             *)
(***************************************************************************)

Obj(rec) == [kind |-> "obj", rec |-> rec]
Bad      == [kind |-> "bad", rec |-> << >>]
Blank    == [kind |-> "blank", rec |-> << >>]
NonObj   == [kind |-> "nonobj", rec |-> << >>]

\* {"i": 1, "t.n": 1}
RecA  == << << <<"i">>, 1 >>, << <<"t", ".", "n">>, 1 >> >>
\* {"n": 1, "i": 1}: the pairs of RecA after clean_cols, in another order
RecA2 == << << <<"n">>, 1 >>, << <<"i">>, 1 >> >>
\* {"i": 2}
RecB  == << << <<"i">>, 2 >> >>
\* {"a.x": 1, "b.x": 2}: both keys normalize to x
RecC  == << << <<"a", ".", "x">>, 1 >>, << <<"b", ".", "x">>, 2 >> >>

File(name, lines) == [name |-> name, lines |-> lines]
Folder(files) == [present |-> TRUE, files |-> files]
\* RAW_DIR / ds is no directory
Missing == [present |-> FALSE, files |-> {}]

\* a.csv, b.JSON, c.txt
FolderA ==
    Folder({ File(<<"a", ".", "c", "s", "v">>, << Obj(RecA), Obj(RecB) >>),
             File(<<"b", ".", "J", "S", "O", "N">>,
                  << Obj(RecA2), Bad, Blank, Obj(RecC) >>),
             File(<<"c", ".", "t", "x", "t">>, << Blank >>) })

\* _S (no extension), a.json
FolderB ==
    Folder({ File(<<"_", "S">>, << Bad >>),
             File(<<"a", ".", "j", "s", "o", "n">>,
                  << Obj(RecB), Obj(RecB), Obj(RecB) >>) })

\* a.json (no record), b.csv
FolderC ==
    Folder({ File(<<"a", ".", "j", "s", "o", "n">>, << Blank >>),
             File(<<"b", ".", "c", "s", "v">>, << Obj(RecB) >>) })

\* a.json with a line that is JSON but no object
FolderD ==
    Folder({ File(<<"a", ".", "j", "s", "o", "n">>, << Obj(RecA), NonObj >>) })

\* for d in ("orders", "playlist_track", "track_facts", "tracks")
DatasetList == << "orders", "playlist_track", "track_facts", "tracks" >>
Datasets == {DatasetList[i] : i \in 1..Len(DatasetList)}

\* the contents of raw_data/ the runs are checked on
RawChoices ==
    { [orders |-> FolderA, playlist_track |-> Missing,
       track_facts |-> FolderC, tracks |-> Missing],
      [orders |-> FolderB, playlist_track |-> Missing,
       track_facts |-> Missing, tracks |-> FolderD],
      [orders |-> Missing, playlist_track |-> FolderD,
       track_facts |-> Missing, tracks |-> FolderA] }

(***************************************************************************)
(* Bounds                                                                  *)
(***************************************************************************)

\* calls of run_all()
MaxRuns == 3
\* kills of the process
MaxKills == 2
\* exceptions raised by the file system or a reader (I/O errors)
MaxFaults == 1

\* pairs of a record clean_cols is checked on
MaxPairs == 3

\* pd.read_csv(path, chunksize=50_000)
ChunkSize == 50000

(***************************************************************************)
(* State                                                                   *)
(***************************************************************************)

VARIABLES
    raw,        \* raw_data/: dataset |-> folder, or Missing
    ckpt,       \* processed_data/<ds>.ckpt: [name, rows], or None
    part,       \* processed_data/<ds>.json.gz.part: its lines on disk, or None
    final,      \* processed_data/<ds>.json.gz: its lines, or None
    runPc,      \* run_all: "idle", "running", "returned", "escaped", "killed"
    di,         \* run_all: index of the dataset being processed
    pc,         \* process: the statement about to run
    last_done,  \* process: locals
    rows_done,
    stats,
    cols_seen,
    hashes,
    gz,         \* "unbound", "open" or "closed"
    gzbuf,      \* lines written to gz that have not reached the disk
    listing,    \* sorted(folder.iterdir())
    fi,         \* index of src in listing
    pos,        \* the reader's position in src: the next line
    exc,        \* where the exception being handled was raised, or "none"
    status,     \* what this run_all printed for each dataset
    log,        \* the diagnostics this call of process logged: the number of
                \* "duplicate rows detected" entries and the column lists
                \* of the "new columns" entries
    reads,      \* history: the files this call of process gave a reader
    seen,       \* history: the records this call of process hashed
    final0,     \* history: final[ds] when this call of process began
    killedAt,   \* history: the dataset and file whose record loop a kill
                \* interrupted, and final0 of that call
    prevRun,    \* history: for each dataset, the lines of the final artifact
                \* and the summary of the call that last reached its
                \* summary, while no later call for it ended otherwise
    kept,       \* history: for each dataset, the part-file a failed
                \* os.replace left, until a rename of it succeeds
    runs, kills, faults

fsVars    == << ckpt, part, final >>
localVars == << last_done, rows_done, stats, cols_seen, hashes, gz, gzbuf,
                listing, fi, pos, exc, log, reads, seen, final0 >>
vars == << raw, ckpt, part, final, runPc, di, pc, last_done, rows_done, stats,
           cols_seen, hashes, gz, gzbuf, listing, fi, pos, exc, status, log,
           reads, seen, final0, killedAt, kept, prevRun, runs, kills, faults >>

ds  == DatasetList[di]
src == listing[fi]

NoStats == [rows |-> 0, bad_json |-> 0, dup_seen |-> FALSE]

NoLog == [dup |-> 0, newcols |-> << >>]

\* the locals of process when no call is active
NoLocals ==
    /\ last_done' = None
    /\ rows_done' = 0
    /\ stats' = NoStats
    /\ cols_seen' = {}
    /\ hashes' = {}
    /\ gz' = "unbound"
    /\ gzbuf' = << >>
    /\ listing' = << >>
    /\ fi' = 1
    /\ pos' = 1
    /\ exc' = "none"
    /\ log' = NoLog
    /\ reads' = << >>
    /\ seen' = << >>
    /\ final0' = None

Init ==
    /\ raw \in RawChoices
    /\ ckpt = [d \in Datasets |-> None]
    /\ part = [d \in Datasets |-> None]
    /\ final = [d \in Datasets |-> None]
    /\ runPc = "idle"
    /\ di = 1
    /\ pc = "idle"
    /\ last_done = None
    /\ rows_done = 0
    /\ stats = NoStats
    /\ cols_seen = {}
    /\ hashes = {}
    /\ gz = "unbound"
    /\ gzbuf = << >>
    /\ listing = << >>
    /\ fi = 1
    /\ pos = 1
    /\ exc = "none"
    /\ status = [d \in Datasets |-> "none"]
    /\ log = NoLog
    /\ reads = << >>
    /\ seen = << >>
    /\ final0 = None
    /\ killedAt = None
    /\ kept = [d \in Datasets |-> None]
    /\ prevRun = [d \in Datasets |-> None]
    /\ runs = 0
    /\ kills = 0
    /\ faults = 0

(***************************************************************************)
(* Helpers of process                                                      *)
(***************************************************************************)

\* load_ckpt: (name, rows) of the two-line file, (None, 0) without a file
load_ckpt(cp) ==
    IF cp # None THEN << Some(Strip(Val(cp).name)), Val(cp).rows >>
    ELSE << None, 0 >>

\* the file save_ckpt writes
save_ckpt(filename, rows) == Some([name |-> filename, rows |-> rows])

\* Python's truth value of last_done (None and "" are false)
Truthy(name) == name # None /\ Val(name) # << >>

\* mutant of Mode: the part-file is always opened for appending
Mode_AlwaysAppend(rows) == "at"

\* mutant of Mode: the mode follows the checkpointed name, not the row count
Mode_ByName(rows) == IF last_done # None THEN "at" ELSE "wt"

\* mode = "at" if rows_done else "wt"
Mode(rows) == IF rows # 0 THEN "at" ELSE "wt"

\* the reader process picks for a file, "skip" for none
ReaderOf(name) ==
    LET ext == Lower(Suffix(name))
    IN  IF ext = <<".", "c", "s", "v">> THEN "csv"
        ELSE IF IsSubstring(ext, <<".", "j", "s", "o", "n">>) THEN "json"
        ELSE "skip"

\* sorted(folder.iterdir())
RECURSIVE Sorted(_)
Sorted(names) ==
    IF names = {} THEN << >>
    ELSE LET m == CHOOSE m \in names : \A n \in names : StrLeq(m, n)
         IN  <<m>> \o Sorted(names \ {m})

\* mutant of Opened: the part-file is always truncated
Opened_Truncates(old, mode) == Some(<< >>)

\* gzip.open(part, mode): "wt" truncates, "at" keeps what is there
Opened(old, mode) == IF mode = "wt" \/ old = None THEN Some(<< >>) ELSE old

\* mutant of Skips: a resumed call skips no file
Skips_Never(name) == FALSE

\* mutant of Skips: the checkpointed file itself is not skipped
Skips_Strict(name) == Truthy(last_done) /\ StrLess(name, Val(last_done))

\* if last_done and src.name <= last_done: continue
Skips(name) == Truthy(last_done) /\ StrLeq(name, Val(last_done))

\* process returns: run_all calls it for the next dataset, or ends
Return ==
    /\ pc' = IF di < Len(DatasetList) THEN "start" ELSE "idle"
    /\ runPc' = IF di < Len(DatasetList) THEN "running" ELSE "returned"
    /\ di' = IF di < Len(DatasetList) THEN di + 1 ELSE 1
    /\ killedAt' = IF killedAt # None /\ Val(killedAt).d = di THEN None ELSE killedAt
    /\ NoLocals

(***************************************************************************)
(* run_all and process                                                     *)
(***************************************************************************)

\* run_all() is called (the first time, or again after it ended or died)
RunAll ==
    /\ runPc # "running"
    /\ runs < MaxRuns
    /\ runs' = runs + 1
    /\ runPc' = "running"
    /\ di' = 1
    /\ pc' = "start"
    /\ status' = [d \in Datasets |-> "none"]
    /\ UNCHANGED << raw, fsVars, localVars, killedAt, kept, prevRun, kills, faults >>

\* mutant of ProcessStart: the digests of the files the checkpoint covers
\* are carried into the call
ProcessStart_KeepsDigests ==
    /\ runPc = "running" /\ pc = "start"
    /\ IF ~raw[ds].present
       THEN /\ status' = [status EXCEPT ![ds] = "missing"]
            /\ Return
       ELSE /\ last_done' = load_ckpt(ckpt[ds])[1]
            /\ rows_done' = load_ckpt(ckpt[ds])[2]
            /\ stats' = [rows |-> load_ckpt(ckpt[ds])[2], bad_json |-> 0,
                         dup_seen |-> FALSE]
            /\ cols_seen' = {}
            /\ hashes' =
                  {row_hash(clean_cols(l.rec)) :
                     l \in UNION {{f.lines[i] : i \in {j \in 1..Len(f.lines) :
                                                          f.lines[j].kind = "obj"}} :
                                  f \in {g \in raw[ds].files :
                                           /\ ckpt[ds] # None
                                           /\ StrLeq(g.name, Val(ckpt[ds]).name)}}}
            /\ final0' = final[ds]
            /\ pc' = "open"
            /\ UNCHANGED << runPc, di, status, killedAt, gz, gzbuf, listing,
                            fi, pos, exc, log, reads, seen >>
    /\ UNCHANGED << raw, fsVars, kept, prevRun, runs, kills, faults >>

\* mutant of ProcessStart: the folder is not tested
ProcessStart_NoFolderTest ==
    /\ runPc = "running" /\ pc = "start"
    /\ last_done' = load_ckpt(ckpt[ds])[1]
    /\ rows_done' = load_ckpt(ckpt[ds])[2]
    /\ stats' = [rows |-> load_ckpt(ckpt[ds])[2], bad_json |-> 0,
                 dup_seen |-> FALSE]
    /\ cols_seen' = {}
    /\ hashes' = {}
    /\ final0' = final[ds]
    /\ pc' = "open"
    /\ UNCHANGED << runPc, di, status, killedAt, gz, gzbuf, listing,
                    fi, pos, exc, log, reads, seen >>
    /\ UNCHANGED << raw, fsVars, kept, prevRun, runs, kills, faults >>

\* process, up to the try: the folder test, load_ckpt, the locals
ProcessStart ==
    /\ runPc = "running" /\ pc = "start"
    /\ IF ~raw[ds].present
       THEN /\ status' = [status EXCEPT ![ds] = "missing"]
            /\ Return
       ELSE /\ last_done' = load_ckpt(ckpt[ds])[1]
            /\ rows_done' = load_ckpt(ckpt[ds])[2]
            /\ stats' = [rows |-> load_ckpt(ckpt[ds])[2], bad_json |-> 0,
                         dup_seen |-> FALSE]
            /\ cols_seen' = {}
            /\ hashes' = {}
            /\ final0' = final[ds]
            /\ pc' = "open"
            /\ UNCHANGED << runPc, di, status, killedAt, gz, gzbuf, listing,
                            fi, pos, exc, log, reads, seen >>
    /\ UNCHANGED << raw, fsVars, kept, prevRun, runs, kills, faults >>

\* gz = gzip.open(part, mode); the folder is listed and sorted
GzOpen ==
    /\ runPc = "running" /\ pc = "open"
    /\ part' = [part EXCEPT ![ds] = Opened(@, Mode(rows_done))]
    /\ gz' = "open"
    /\ gzbuf' = << >>
    /\ listing' = Sorted({f.name : f \in raw[ds].files})
    /\ fi' = 1
    /\ pc' = "loop"
    /\ UNCHANGED << raw, ckpt, final, runPc, di, last_done, rows_done, stats,
                    cols_seen, hashes, pos, exc, status, log, reads, seen,
                    final0, killedAt, kept, prevRun, runs, kills, faults >>

\* for src in sorted(...): the checkpoint test and the choice of a reader
NextFile ==
    /\ runPc = "running" /\ pc = "loop"
    /\ IF fi > Len(listing)
       THEN /\ pc' = "close"
            /\ UNCHANGED << fi, pos, reads >>
       ELSE IF Skips(src)
       THEN /\ fi' = fi + 1
            /\ UNCHANGED << pc, pos, reads >>
       ELSE IF ReaderOf(src) = "skip"
       THEN /\ fi' = fi + 1
            /\ UNCHANGED << pc, pos, reads >>
       ELSE /\ pc' = "rec"
            /\ pos' = 1
            /\ reads' = Append(reads, src)
            /\ UNCHANGED fi
    /\ UNCHANGED << raw, fsVars, runPc, di, last_done, rows_done, stats,
                    cols_seen, hashes, gz, gzbuf, listing, exc, status, log,
                    seen, final0, killedAt, kept, prevRun, runs, kills, faults >>

\* the lines of the file being read
Lines == (CHOOSE f \in raw[ds].files : f.name = src).lines

\* csv_rows / json_rows, before the yield: for c in r: cols.add(c), on the
\* set process passed in (cols is cols_seen)
ReaderCols(rec) == cols_seen \cup Keys(rec)

\* new_cols of the loop body: the keys of rec, in its order, that are not
\* in cols
RECURSIVE NewCols(_, _)
NewCols(rec, cols) ==
    IF rec = << >> THEN << >>
    ELSE (IF Head(rec)[1] \in cols THEN << >> ELSE << Head(rec)[1] >>)
         \o NewCols(Tail(rec), cols)

\* the log after the diagnostics of the loop body for rec: one "duplicate
\* rows detected" entry when dup_seen is set, one "new columns" entry when
\* new_cols is not empty
Logged(rec) ==
    [dup |-> IF ~stats.dup_seen /\ row_hash(rec) \in hashes
             THEN log.dup + 1 ELSE log.dup,
     newcols |-> IF NewCols(rec, ReaderCols(rec)) # << >>
                 THEN Append(log.newcols, NewCols(rec, ReaderCols(rec)))
                 ELSE log.newcols]

\* the loop body up to the write, for the record rec a reader yielded (the
\* reader has put the keys of rec into cols_seen before it yields): the
\* digest test, the column set and their diagnostics
Examine(rec) ==
    /\ stats' = [stats EXCEPT
                   !.dup_seen = @ \/ row_hash(rec) \in hashes]
    /\ hashes' = hashes \cup {row_hash(rec)}
    /\ cols_seen' = ReaderCols(rec)
                     \cup {c \in Keys(rec) : c \notin ReaderCols(rec)}
    /\ log' = Logged(rec)
    /\ seen' = Append(seen, rec)

\* mutant of Body: a record whose digest was seen is not written
Body_Dedup(rec) ==
    /\ stats' = [stats EXCEPT
                   !.dup_seen = @ \/ row_hash(rec) \in hashes,
                   !.rows = @ + 1]
    /\ hashes' = hashes \cup {row_hash(rec)}
    /\ cols_seen' = ReaderCols(rec)
    /\ log' = Logged(rec)
    /\ seen' = Append(seen, rec)
    /\ gzbuf' = IF row_hash(rec) \in hashes THEN gzbuf
                ELSE Append(gzbuf, JsonDumps(rec, FALSE))

\* the whole loop body: Examine, gz.write, stats["rows"] += 1
Body(rec) ==
    /\ stats' = [stats EXCEPT
                   !.dup_seen = @ \/ row_hash(rec) \in hashes,
                   !.rows = @ + 1]
    /\ hashes' = hashes \cup {row_hash(rec)}
    /\ cols_seen' = ReaderCols(rec)
                     \cup {c \in Keys(rec) : c \notin ReaderCols(rec)}
    /\ log' = Logged(rec)
    /\ seen' = Append(seen, rec)
    /\ gzbuf' = Append(gzbuf, JsonDumps(rec, FALSE))

\* for rec in reader: one step of csv_rows / json_rows and, for a record,
\* the loop body
ReadRec ==
    /\ runPc = "running" /\ pc = "rec"
    /\ IF pos > Len(Lines)
       THEN /\ pc' = "drained"
            /\ UNCHANGED << stats, hashes, cols_seen, seen, gzbuf, pos, exc,
                            log >>
       ELSE IF Lines[pos].kind = "obj"
       THEN /\ Body(clean_cols(Lines[pos].rec))
            /\ pos' = pos + 1
            /\ UNCHANGED << pc, exc >>
       ELSE IF Lines[pos].kind = "blank"
       THEN /\ pos' = pos + 1
            /\ UNCHANGED << pc, stats, hashes, cols_seen, seen, gzbuf, exc,
                            log >>
       ELSE IF Lines[pos].kind = "bad"
       THEN /\ stats' = [stats EXCEPT !.bad_json = @ + 1]
            /\ pos' = pos + 1
            /\ UNCHANGED << pc, hashes, cols_seen, seen, gzbuf, exc, log >>
       ELSE \* json.loads gave no dict: clean_cols raises AttributeError,
            \* which json_rows does not catch
            /\ exc' = "clean_cols"
            /\ pc' = "except"
            /\ UNCHANGED << stats, hashes, cols_seen, seen, gzbuf, pos, log >>
    /\ UNCHANGED << raw, fsVars, runPc, di, last_done, rows_done, gz, listing,
                    fi, status, reads, final0, killedAt, kept, prevRun, runs, kills, faults >>

\* gz.write raises (disk full): the record was examined, not written
WriteFault ==
    /\ runPc = "running" /\ pc = "rec"
    /\ faults < MaxFaults
    /\ pos <= Len(Lines)
    /\ Lines[pos].kind = "obj"
    /\ Examine(clean_cols(Lines[pos].rec))
    /\ exc' = "write"
    /\ pc' = "except"
    /\ faults' = faults + 1
    /\ UNCHANGED << raw, fsVars, runPc, di, last_done, rows_done, gz, gzbuf,
                    listing, fi, pos, status, reads, final0, killedAt, kept, prevRun, runs,
                    kills >>

\* where the reader of src can raise an I/O or parse error: json_rows at any
\* line, csv_rows when pandas reads a chunk
ReaderCanRaise ==
    \/ ReaderOf(src) = "json"
    \/ ReaderOf(src) = "csv" /\ (pos - 1) % ChunkSize = 0

\* kept after an exception: the part-file as a failed os.replace left it
KeptAfter == IF pc = "replace" THEN [kept EXCEPT ![ds] = part[ds]] ELSE kept

\* gzip.open, a reader, save_ckpt, os.replace or ckpt.unlink raises
Raise ==
    /\ runPc = "running"
    /\ pc \in {"open", "rec", "drained", "replace", "unlink"}
    /\ pc = "rec" => ReaderCanRaise
    /\ faults < MaxFaults
    /\ exc' = pc
    /\ pc' = "except"
    /\ faults' = faults + 1
    /\ kept' = KeptAfter
    /\ prevRun' = prevRun
    /\ UNCHANGED << raw, fsVars, runPc, di, last_done, rows_done, stats,
                    cols_seen, hashes, gz, gzbuf, listing, fi, pos, status,
                    log, reads, seen, final0, killedAt, runs, kills >>

\* save_ckpt(ckpt, src.name, stats["rows"])
SaveCkpt ==
    /\ runPc = "running" /\ pc = "drained"
    /\ ckpt' = [ckpt EXCEPT ![ds] = save_ckpt(src, stats.rows)]
    /\ fi' = fi + 1
    /\ pc' = "loop"
    /\ UNCHANGED << raw, part, final, runPc, di, last_done, rows_done, stats,
                    cols_seen, hashes, gz, gzbuf, listing, pos, exc, status,
                    log, reads, seen, final0, killedAt, kept, prevRun, runs, kills, faults >>

\* gz.close(): what was buffered reaches the part-file
GzClose ==
    /\ runPc = "running" /\ pc = "close"
    /\ part' = [part EXCEPT ![ds] = Some(Val(@) \o gzbuf)]
    /\ gzbuf' = << >>
    /\ gz' = "closed"
    /\ pc' = "replace"
    /\ UNCHANGED << raw, ckpt, final, runPc, di, last_done, rows_done, stats,
                    cols_seen, hashes, listing, fi, pos, exc, status, log,
                    reads, seen, final0, killedAt, kept, prevRun, runs, kills, faults >>

\* os.replace(part, final)
Replace ==
    /\ runPc = "running" /\ pc = "replace"
    /\ final' = [final EXCEPT ![ds] = part[ds]]
    /\ part' = [part EXCEPT ![ds] = None]
    /\ pc' = "unlink"
    /\ kept' = [kept EXCEPT ![ds] = None]
    /\ prevRun' = prevRun
    /\ UNCHANGED << raw, ckpt, runPc, di, localVars, status, killedAt, runs,
                    kills, faults >>

\* ckpt.unlink(missing_ok=True)
Unlink ==
    /\ runPc = "running" /\ pc = "unlink"
    /\ ckpt' = [ckpt EXCEPT ![ds] = None]
    /\ pc' = "print"
    /\ UNCHANGED << raw, part, final, runPc, di, localVars, status, killedAt, kept, prevRun,
                    runs, kills, faults >>

\* mutant of Summary: rows counts the records of this call alone
Summary_ThisCallOnly ==
    [rows |-> stats.rows - rows_done, bad_json |-> stats.bad_json,
     dup_seen |-> stats.dup_seen, columns |-> Cardinality(cols_seen)]

\* what the summary line shows: rows, bad_json, dup_seen and columns
Summary ==
    [rows |-> stats.rows, bad_json |-> stats.bad_json,
     dup_seen |-> stats.dup_seen, columns |-> Cardinality(cols_seen)]

\* print(f"{ds}: rows=... "), and process returns
PrintSummary ==
    /\ runPc = "running" /\ pc = "print"
    /\ status' = [status EXCEPT ![ds] = "done"]
    /\ Return
    /\ prevRun' = [prevRun EXCEPT ![ds] =
                    Some([lines |-> Val(final[ds]), summary |-> Summary,
                          last_done |-> last_done])]
    /\ UNCHANGED << raw, fsVars, kept, runs, kills, faults >>

\* mutant of Handler: the handler removes the partial output
Handler_DeletesPart ==
    /\ runPc = "running" /\ pc = "except"
    /\ IF gz = "unbound"
       THEN /\ runPc' = "escaped"
            /\ pc' = "idle"
            /\ di' = 1
            /\ killedAt' = IF killedAt # None /\ Val(killedAt).d = di
                           THEN None ELSE killedAt
            /\ NoLocals
            /\ UNCHANGED << part, status >>
       ELSE /\ part' = [part EXCEPT ![ds] = None]
            /\ status' = [status EXCEPT ![ds] = "failed"]
            /\ Return
    /\ kept' = kept
    /\ prevRun' = [prevRun EXCEPT ![ds] = None]
    /\ UNCHANGED << raw, ckpt, final, runs, kills, faults >>

\* mutant of Handler: the handler clears the checkpoint
Handler_ClearsCkpt ==
    /\ runPc = "running" /\ pc = "except"
    /\ IF gz = "unbound"
       THEN /\ runPc' = "escaped"
            /\ pc' = "idle"
            /\ di' = 1
            /\ killedAt' = IF killedAt # None /\ Val(killedAt).d = di
                           THEN None ELSE killedAt
            /\ NoLocals
            /\ UNCHANGED << part, status, ckpt >>
       ELSE /\ part' = IF gz = "open"
                      THEN [part EXCEPT ![ds] = Some(Val(@) \o gzbuf)]
                      ELSE part
            /\ ckpt' = [ckpt EXCEPT ![ds] = None]
            /\ status' = [status EXCEPT ![ds] = "failed"]
            /\ Return
    /\ kept' = kept
    /\ prevRun' = [prevRun EXCEPT ![ds] = None]
    /\ UNCHANGED << raw, final, runs, kills, faults >>

\* mutant of Handler: an exception raised while a file is read ends that
\* file, and the loop goes on with the next one
Handler_SkipsFile ==
    /\ runPc = "running" /\ pc = "except"
    /\ IF gz = "open" /\ fi <= Len(listing)
       THEN /\ pc' = "loop"
            /\ fi' = fi + 1
            /\ exc' = "none"
            /\ UNCHANGED << part, status, runPc, di, last_done, rows_done,
                            stats, cols_seen, hashes, gz, gzbuf, listing,
                            pos, log, reads, seen, final0, killedAt >>
       ELSE /\ status' = [status EXCEPT ![ds] = "failed"]
            /\ Return
            /\ UNCHANGED part
    /\ kept' = kept
    /\ prevRun' = [prevRun EXCEPT ![ds] = None]
    /\ UNCHANGED << raw, ckpt, final, runs, kills, faults >>

\* except Exception as e: gz.close(), the log, print("error processing"),
\* return.  When gzip.open raised, gz is unbound: gz.close() raises
\* UnboundLocalError, which leaves process and run_all.
Handler ==
    /\ runPc = "running" /\ pc = "except"
    /\ IF gz = "unbound"
       THEN /\ runPc' = "escaped"
            /\ pc' = "idle"
            /\ di' = 1
            /\ killedAt' = IF killedAt # None /\ Val(killedAt).d = di
                           THEN None ELSE killedAt
            /\ NoLocals
            /\ UNCHANGED << part, status >>
       ELSE /\ part' = IF gz = "open"
                      THEN [part EXCEPT ![ds] = Some(Val(@) \o gzbuf)]
                      ELSE part
            /\ status' = [status EXCEPT ![ds] = "failed"]
            /\ Return
    /\ kept' = kept
    /\ prevRun' = [prevRun EXCEPT ![ds] = None]
    /\ UNCHANGED << raw, ckpt, final, runs, kills, faults >>

\* the lines of the part-file a kill can leave on disk: those already there
\* and any number of the buffered ones
AfterKill(old, buf) ==
    IF old = None THEN {None}
    ELSE {Some(Val(old) \o SubSeq(buf, 1, k)) : k \in 0..Len(buf)}

\* the process is killed, between two statements of process (save_ckpt,
\* os.replace and ckpt.unlink each take effect whole or not at all)
Kill ==
    /\ runPc = "running"
    /\ kills < MaxKills
    /\ kills' = kills + 1
    /\ part' \in {[part EXCEPT ![ds] = p] : p \in AfterKill(part[ds], gzbuf)}
    /\ runPc' = "killed"
    /\ pc' = "idle"
    /\ di' = 1
    /\ killedAt' = IF pc = "rec"
                   THEN Some([d |-> di, f |-> src, final0 |-> final0])
                   ELSE IF killedAt # None /\ Val(killedAt).d = di /\ pc # "start"
                   THEN None
                   ELSE killedAt
    /\ NoLocals
    /\ prevRun' = [prevRun EXCEPT ![ds] = None]
    /\ UNCHANGED << raw, ckpt, final, status, kept, runs, faults >>

Next ==
    \/ RunAll
    \/ ProcessStart
    \/ GzOpen
    \/ NextFile
    \/ ReadRec
    \/ WriteFault
    \/ Raise
    \/ SaveCkpt
    \/ GzClose
    \/ Replace
    \/ Unlink
    \/ PrintSummary
    \/ Handler
    \/ Kill

Spec == Init /\ [][Next]_vars

(***************************************************************************)
(* Kills and restarts alone: no operation of the file system fails, the   *)
(* operator starts run_all once and again after each kill, and a process  *)
(* that is not killed executes its next statement.                        *)
(***************************************************************************)

\* run_all() is started, for the first time or after a kill
Restart ==
    /\ runPc \in {"idle", "killed"}
    /\ RunAll

\* the steps of the program and of the operator who restarts it
Step ==
    \/ Restart
    \/ ProcessStart
    \/ GzOpen
    \/ NextFile
    \/ ReadRec
    \/ SaveCkpt
    \/ GzClose
    \/ Replace
    \/ Unlink
    \/ PrintSummary
    \/ Handler

LiveNext == Step \/ Kill

LiveSpec == Init /\ [][LiveNext]_vars /\ WF_vars(Step)

(***************************************************************************)
(* clean_cols on its inputs: orders/ holds one file a.json with one       *)
(* object, any record of up to MaxPairs pairs with distinct keys (a JSON  *)
(* object that json.loads returns has distinct keys), and run_all() is    *)
(* run once without a fault or a kill.                                    *)
(***************************************************************************)

\* a, b, a.b, c.a.b and a. (nothing after the last dot)
CleanKeys ==
    { <<"a">>, <<"b">>, <<"a", ".", "b">>, <<"c", ".", "a", ".", "b">>,
      <<"a", ".">> }

CleanPairs == {<< k, v >> : k \in CleanKeys, v \in {1, 2}}

CleanRecords ==
    UNION {{r \in [1..n -> CleanPairs] :
               \A i, j \in 1..n : r[i][1] = r[j][1] => i = j} :
           n \in 0..MaxPairs}

CleanChoices ==
    { [orders |-> Folder({File(<<"a", ".", "j", "s", "o", "n">>, << Obj(r) >>)}),
       playlist_track |-> Missing, track_facts |-> Missing, tracks |-> Missing] :
      r \in CleanRecords }

CleanInit ==
    /\ raw \in CleanChoices
    /\ ckpt = [d \in Datasets |-> None]
    /\ part = [d \in Datasets |-> None]
    /\ final = [d \in Datasets |-> None]
    /\ runPc = "idle"
    /\ di = 1
    /\ pc = "idle"
    /\ last_done = None
    /\ rows_done = 0
    /\ stats = NoStats
    /\ cols_seen = {}
    /\ hashes = {}
    /\ gz = "unbound"
    /\ gzbuf = << >>
    /\ listing = << >>
    /\ fi = 1
    /\ pos = 1
    /\ exc = "none"
    /\ status = [d \in Datasets |-> "none"]
    /\ log = NoLog
    /\ reads = << >>
    /\ seen = << >>
    /\ final0 = None
    /\ killedAt = None
    /\ kept = [d \in Datasets |-> None]
    /\ prevRun = [d \in Datasets |-> None]
    /\ runs = 0
    /\ kills = 0
    /\ faults = 0

CleanNext ==
    \/ Restart
    \/ ProcessStart
    \/ GzOpen
    \/ NextFile
    \/ ReadRec
    \/ SaveCkpt
    \/ GzClose
    \/ Replace
    \/ Unlink
    \/ PrintSummary

CleanSpec == CleanInit /\ [][CleanNext]_vars

(***************************************************************************)
(* What the specification says of a dataset's files                        *)
(***************************************************************************)

\* the format an extension names: .csv and .json are recognised
FormatOf(name) ==
    LET ext == Lower(Suffix(name))
    IN  IF ext = <<".", "c", "s", "v">> THEN "csv"
        ELSE IF ext = <<".", "j", "s", "o", "n">> THEN "json"
        ELSE "other"

FileOf(d, name) == CHOOSE f \in raw[d].files : f.name = name

\* the output lines of the records that parse, in the order of the lines
RECURSIVE ParsedLines(_)
ParsedLines(lines) ==
    IF lines = << >> THEN << >>
    ELSE IF Head(lines).kind = "obj"
    THEN << JsonDumps(clean_cols(Head(lines).rec), FALSE) >> \o ParsedLines(Tail(lines))
    ELSE ParsedLines(Tail(lines))

\* the number of lines of the given kinds
RECURSIVE CountKind(_, _)
CountKind(lines, kinds) ==
    IF lines = << >> THEN 0
    ELSE (IF Head(lines).kind \in kinds THEN 1 ELSE 0) + CountKind(Tail(lines), kinds)

\* the output lines of the recognised files among names, file after file
RECURSIVE LinesOfFiles(_, _)
LinesOfFiles(d, names) ==
    IF names = << >> THEN << >>
    ELSE (IF FormatOf(Head(names)) = "other" THEN << >>
          ELSE ParsedLines(FileOf(d, Head(names)).lines))
         \o LinesOfFiles(d, Tail(names))

AllNames(d) == {f.name : f \in raw[d].files}

\* the complete artifact of dataset d
Expected(d) == LinesOfFiles(d, Sorted(AllNames(d)))

\* the output lines of the files strictly after name
ExpectedAfter(d, name) ==
    LinesOfFiles(d, Sorted({n \in AllNames(d) : StrLess(name, n)}))

Range(q) == {q[i] : i \in 1..Len(q)}

IsPrefix(p, q) == Len(p) <= Len(q) /\ SubSeq(q, 1, Len(p)) = p

(***************************************************************************)
(* C1.  Whenever <ds>.json.gz exists, its lines are the parsed records of  *)
(* all recognised source files of ds, each once, in sorted-file order;     *)
(* partial, duplicated or empty content is never seen under the final      *)
(* name.  The code breaks this: a run that resumes with a nonzero row      *)
(* count appends to whatever the part-file holds.                          *)
(***************************************************************************)
C1_FinalIsComplete ==
    \A d \in Datasets : final[d] # None => Val(final[d]) = Expected(d)

(***************************************************************************)
(* C2.  A run that resumed from a checkpoint (F, R) and completed leaves a *)
(* final artifact of R + (records of the files after F) lines.             *)
(***************************************************************************)
C2_ResumedLineCount ==
    (pc = "print" /\ last_done # None) =>
        Len(Val(final[ds])) = rows_done + Len(ExpectedAfter(ds, Val(last_done)))

(***************************************************************************)
(* C3.  No committed row is lost: when a run of process(ds) has completed, *)
(* the final artifact holds every record of every source file, whatever    *)
(* crashes came before.                                                    *)
(***************************************************************************)
C3_NoRowLost ==
    \A d \in Datasets :
        status[d] = "done" => Range(Expected(d)) \subseteq Range(Val(final[d]))

(***************************************************************************)
(* C4.  A run of process(ds) that found no checkpoint and was not          *)
(* interrupted produces a final artifact that holds exactly the parsed     *)
(* records of all source files, in sorted-file order and in their order    *)
(* within each file.                                                       *)
(***************************************************************************)
C4_FreshRunComplete ==
    (pc = "print" /\ last_done = None) => final[ds] = Some(Expected(ds))

\* a fresh run completed after an earlier run had left a part-file behind
C4_Witness ==
    /\ pc = "print" /\ last_done = None
    /\ Len(Val(final[ds])) >= 3
    /\ faults > 0

(***************************************************************************)
(* C5.  A kill while file F is being read leaves the part-file in place,   *)
(* the final artifact as it was when the call began, and the checkpoint    *)
(* naming the file processed immediately before F (no checkpoint when      *)
(* there is none); the restarted run gives its first reader to F, at the   *)
(* first line of F, and reads no file before F.                            *)
(***************************************************************************)

\* the last file before name that process reads, None when there is none
PrevRead(d, name) ==
    LET B == {n \in AllNames(d) : ReaderOf(n) # "skip" /\ StrLess(n, name)}
    IN  IF B = {} THEN None
        ELSE Some(CHOOSE n \in B : \A m \in B : StrLeq(m, n))

C5_AfterKill ==
    (runPc = "killed" /\ killedAt # None) =>
        LET k == Val(killedAt)
            d == DatasetList[k.d]
            prev == PrevRead(d, k.f)
        IN  /\ part[d] # None
            /\ final[d] = k.final0
            /\ IF prev = None THEN ckpt[d] = None
               ELSE ckpt[d] # None /\ Val(ckpt[d]).name = Val(prev)

C5_Restarted ==
    (runPc = "running" /\ killedAt # None /\ di = Val(killedAt).d) =>
        /\ reads # << >> => reads[1] = Val(killedAt).f
        /\ \A i \in 1..Len(reads) : ~StrLess(reads[i], Val(killedAt).f)

C5_FirstLine ==
    (runPc = "running" /\ killedAt # None /\ di = Val(killedAt).d
        /\ reads = << >> /\ reads' # << >>)
    => (pc' = "rec" /\ pos' = 1 /\ listing'[fi'] = Val(killedAt).f)

C5_KillMidFile ==
    [](C5_AfterKill /\ C5_Restarted) /\ [][C5_FirstLine]_vars

\* the restarted run has begun to read again the second file of a folder,
\* which a kill had interrupted
C5_Witness ==
    /\ runPc = "running" /\ killedAt # None /\ di = Val(killedAt).d
    /\ pc = "rec" /\ pos > 1
    /\ reads = << Val(killedAt).f >>
    /\ ckpt[ds] # None

(***************************************************************************)
(* C6.  No failure inside process escapes it: run_all goes on to the       *)
(* remaining datasets and returns normally.  The code breaks this when     *)
(* gzip.open raises: the handler's gz.close() then raises                  *)
(* UnboundLocalError out of process and run_all.                           *)
(***************************************************************************)
C6_NothingEscapes == runPc # "escaped"

(***************************************************************************)
(* C7.  The handler of an exception raised while reading or writing        *)
(* closes the stream and changes nothing else: the checkpoint and the      *)
(* final artifact of every dataset are as before, the part-file is still   *)
(* there and keeps the lines it had, and the dataset is reported failed.   *)
(***************************************************************************)
C7_HandlerStep ==
    (pc = "except" /\ exc \in {"rec", "clean_cols", "write"} /\ runPc' # "killed")
    => /\ ckpt' = ckpt
       /\ final' = final
       /\ part'[ds] # None
       /\ IsPrefix(Val(part[ds]), Val(part'[ds]))
       /\ \A d \in Datasets \ {ds} : part'[d] = part[d]
       /\ status'[ds] = "failed"

C7_HandlerKeepsFiles == [][C7_HandlerStep]_vars

\* a dataset was reported failed, and its part-file holds lines of the file
\* that was being read beyond those the checkpoint counts
C7_Witness ==
    \E d \in Datasets :
        /\ status[d] = "failed"
        /\ ckpt[d] # None /\ part[d] # None
        /\ Len(Val(part[d])) > Val(ckpt[d]).rows
        /\ final[d] = None

(***************************************************************************)
(* C8.  The checkpoint is written only right after a source file has been  *)
(* drained (naming that file, with the rows written so far), and removed   *)
(* only once the stream is closed and the part-file has been renamed; when *)
(* process reaches its summary the final artifact exists and neither the   *)
(* checkpoint nor the part-file does.                                      *)
(***************************************************************************)
C8_CkptStep ==
    \A d \in Datasets :
        /\ (ckpt'[d] # ckpt[d] /\ ckpt'[d] # None) =>
              /\ d = ds /\ pc = "drained" /\ pos > Len(Lines)
              /\ Val(ckpt'[d]).name = src
              /\ Val(ckpt'[d]).rows = stats.rows
        /\ (ckpt[d] # None /\ ckpt'[d] = None) =>
              /\ d = ds /\ pc = "unlink" /\ gz = "closed"
              /\ part[d] = None /\ final[d] # None

C8_Done ==
    pc = "print" => (final[ds] # None /\ ckpt[ds] = None /\ part[ds] = None)

C8_CkptLifecycle == []C8_Done /\ [][C8_CkptStep]_vars

\* the summary is about to be printed for a dataset of two files that were
\* both read in this call
C8_Witness == pc = "print" /\ Len(reads) >= 2 /\ stats.rows >= 2

(***************************************************************************)
(* C9.  A line-JSON file with w lines that are JSON objects and m other    *)
(* lines (blank lines apart, which are no lines of JSON text) is read to   *)
(* its end: w records are written, the malformed count grows by m, no line *)
(* aborts the file, and the checkpoint is saved naming the file.  The code *)
(* breaks this for a line that is JSON but no object.                      *)
(***************************************************************************)

RECURSIVE SumKind(_, _, _)
SumKind(d, names, kinds) ==
    IF names = << >> THEN 0
    ELSE CountKind(FileOf(d, Head(names)).lines, kinds)
         + SumKind(d, Tail(names), kinds)

C9_JsonLinesCounted ==
    /\ ~(pc = "except" /\ exc = "clean_cols")
    /\ (pc = "drained" /\ ReaderOf(src) = "json") =>
          /\ stats.rows = rows_done + SumKind(ds, reads, {"obj"})
          /\ stats.bad_json = SumKind(ds, reads, {"bad", "nonobj"})
    /\ (pc = "loop" /\ reads # << >>) =>
          ckpt[ds] = Some([name |-> reads[Len(reads)], rows |-> stats.rows])

(***************************************************************************)
(* C10.  Within one call of process, dup_seen is true exactly when two of  *)
(* the records examined so far have the same key-sorted serialization: it  *)
(* is false before the first such second occurrence, true from it on, and  *)
(* no later record resets it.                                              *)
(***************************************************************************)
HasDuplicate(recs) ==
    \E i, j \in 1..Len(recs) :
        i < j /\ JsonDumps(recs[i], TRUE) = JsonDumps(recs[j], TRUE)

C10_DupSeen == stats.dup_seen = HasDuplicate(seen)

\* dup_seen is still true after a record that differs from all before it,
\* the duplicate having been a record with its keys in another order
C10_Witness ==
    /\ stats.dup_seen
    /\ Len(seen) >= 4
    /\ \A i \in 1..(Len(seen) - 1) :
          JsonDumps(seen[i], TRUE) # JsonDumps(seen[Len(seen)], TRUE)
    /\ \E i, j \in 1..Len(seen) :
          i < j /\ seen[i] # seen[j] /\ JsonDumps(seen[i], TRUE) = JsonDumps(seen[j], TRUE)

(***************************************************************************)
(* C11.  Duplicate detection never changes what is written: while the     *)
(* part-file is open and no write has failed, the lines written in this    *)
(* call are the serializations of the records the readers yielded, one    *)
(* each, in order and with their content, duplicates included; once the   *)
(* part-file is closed they are its last lines.  At most one duplicate    *)
(* diagnostic is logged per call, and it is logged exactly when dup_seen  *)
(* is set.                                                                 *)
(***************************************************************************)
Dumped(recs) == [i \in 1..Len(recs) |-> JsonDumps(recs[i], FALSE)]

Duplicates(recs) ==
    Cardinality({j \in 1..Len(recs) :
                    \E i \in 1..(j - 1) :
                        JsonDumps(recs[i], TRUE) = JsonDumps(recs[j], TRUE)})

C11_DuplicatesWritten ==
    /\ (gz = "open" /\ exc # "write") => gzbuf = Dumped(seen)
    /\ pc = "replace" =>
          /\ Len(Val(part[ds])) >= Len(seen)
          /\ SubSeq(Val(part[ds]), Len(Val(part[ds])) - Len(seen) + 1,
                    Len(Val(part[ds]))) = Dumped(seen)
    /\ log.dup <= 1
    /\ log.dup = 1 <=> stats.dup_seen

\* two duplicates of an earlier record have been written, one diagnostic
C11_Witness ==
    /\ pc = "replace"
    /\ Duplicates(seen) >= 2
    /\ log.dup = 1
    /\ SubSeq(Val(part[ds]), Len(Val(part[ds])) - Len(seen) + 1,
              Len(Val(part[ds]))) = Dumped(seen)

(***************************************************************************)
(* C12.  During a call of process every normalized key that was not yet   *)
(* in the column set is reported in a new-column diagnostic, once, at the *)
(* first record that carries it, and inserted into the set: the columns   *)
(* reported so far are the columns of the records examined so far, none   *)
(* of them twice.                                                          *)
(***************************************************************************)
RECURSIVE Flatten(_)
Flatten(qs) == IF qs = << >> THEN << >> ELSE Head(qs) \o Flatten(Tail(qs))

Reported == Flatten(log.newcols)

C12_NewColumnsReported ==
    /\ Range(Reported) = UNION {Keys(seen[i]) : i \in 1..Len(seen)}
    /\ Range(Reported) \subseteq cols_seen
    /\ \A i, j \in 1..Len(Reported) : Reported[i] = Reported[j] => i = j

(***************************************************************************)
(* C13.  The column set is at every moment the set of the keys of the     *)
(* records the readers have yielded in this call, and when the call       *)
(* reaches its summary it is the set of the last segments of the keys of  *)
(* all rows and objects of the files read in this call - nothing from a   *)
(* file that was not read or from a line that did not parse - and the     *)
(* summary shows its size as columns.                                     *)
(***************************************************************************)
RawKeys(lines) ==
    UNION {Keys(lines[i].rec) : i \in {j \in 1..Len(lines) : lines[j].kind = "obj"}}

ColumnsOf(d, names) ==
    {LastSegment(k) : k \in UNION {RawKeys(FileOf(d, n).lines) : n \in Range(names)}}

C13_ColumnSet ==
    /\ cols_seen = UNION {Keys(seen[i]) : i \in 1..Len(seen)}
    /\ pc = "print" =>
          /\ cols_seen = ColumnsOf(ds, reads)
          /\ Summary.columns = Cardinality(ColumnsOf(ds, reads))

\* a summary after files with dotted keys, two keys with the same last
\* segment, a line that did not parse and a file that was not read
C13_Witness ==
    /\ pc = "print"
    /\ Summary.columns = 3
    /\ Len(reads) = 2
    /\ Len(listing) > Len(reads)
    /\ stats.bad_json > 0
    /\ \E n \in Range(reads) :
          \E k \in RawKeys(FileOf(ds, n).lines) : k \notin cols_seen

(***************************************************************************)
(* C14.  In one call of process the files are visited in ascending name   *)
(* order, each at most once, and a visited file is read exactly when it   *)
(* has a recognised extension and its name is strictly greater than the   *)
(* checkpointed name (or there is no checkpoint): every file at or below  *)
(* the checkpointed name is skipped.                                      *)
(***************************************************************************)
Visited == {listing[i] : i \in 1..(IF fi > Len(listing) THEN Len(listing) ELSE fi - 1)}

ToRead(name) ==
    /\ FormatOf(name) # "other"
    /\ last_done = None \/ StrLess(Val(last_done), name)

C14_FilesReadInOrder ==
    /\ \A i, j \in 1..Len(listing) : i < j => StrLess(listing[i], listing[j])
    /\ \A i, j \in 1..Len(reads) : i < j => StrLess(reads[i], reads[j])
    /\ pc \in {"loop", "close", "replace", "unlink", "print"} =>
          Range(reads) = {n \in Visited : ToRead(n)}

(***************************************************************************)
(* C15.  When the source folder of a dataset is absent, process reports   *)
(* it and returns: the step leaves the part-file, the checkpoint and the  *)
(* final artifact of every dataset as they were, run_all goes on with the *)
(* next dataset (or ends after the last), and a dataset without a folder  *)
(* never has a part-file, a checkpoint or a final artifact and is never   *)
(* past the folder test.                                                  *)
(***************************************************************************)
C15_Step ==
    (runPc = "running" /\ pc = "start" /\ ~raw[ds].present /\ runPc' # "killed") =>
        /\ fsVars' = fsVars
        /\ status' = [status EXCEPT ![ds] = "missing"]
        /\ IF di < Len(DatasetList)
           THEN runPc' = "running" /\ pc' = "start" /\ di' = di + 1
           ELSE runPc' = "returned"

C15_NoArtifact ==
    /\ \A d \in Datasets :
          ~raw[d].present => part[d] = None /\ ckpt[d] = None /\ final[d] = None
    /\ (runPc = "running" /\ pc # "start") => raw[ds].present
    /\ \A d \in Datasets : status[d] = "missing" => ~raw[d].present

C15_MissingFolder == []C15_NoArtifact /\ [][C15_Step]_vars

\* the dataset before this one had no folder, and this one is being
\* processed
C15_Witness ==
    /\ runPc = "running" /\ di > 1 /\ pc = "open"
    /\ status[DatasetList[di - 1]] = "missing"
    /\ \A d \in Datasets :
          ~raw[d].present => part[d] = None /\ ckpt[d] = None /\ final[d] = None

(***************************************************************************)
(* C16.  The states of a call of process: INIT (the checkpoint is loaded, *)
(* the part-file is about to be opened), READING (the loop over the       *)
(* files), FINALIZING (close, rename, clear the checkpoint), DONE (the    *)
(* summary) and ERROR (the exception handler).                            *)
(***************************************************************************)
Phase ==
    IF runPc # "running" THEN "NONE"
    ELSE IF pc = "start" THEN (IF raw[ds].present THEN "INIT" ELSE "NONE")
    ELSE IF pc = "open" THEN "INIT"
    ELSE IF pc \in {"loop", "rec", "drained"} THEN "READING"
    ELSE IF pc \in {"close", "replace", "unlink"} THEN "FINALIZING"
    ELSE IF pc = "print" THEN "DONE"
    ELSE IF pc = "except" THEN "ERROR"
    ELSE "NONE"

\* a step inside one call of process
SameCall == runPc = "running" /\ runPc' = "running" /\ di' = di /\ vars' # vars

PhaseStep == << Phase, Phase' >>

\* C16 as stated: the only transitions are INIT to READING, READING to
\* READING, READING to FINALIZING, FINALIZING to DONE and READING to
\* ERROR; ERROR is entered from READING alone; DONE and ERROR are terminal
C16_StatedStep ==
    /\ (SameCall /\ Phase' # Phase) =>
          PhaseStep \in { <<"INIT", "READING">>, <<"READING", "FINALIZING">>,
                          <<"FINALIZING", "DONE">>, <<"READING", "ERROR">> }
    /\ (SameCall /\ Phase' = "ERROR") => Phase \in {"READING", "ERROR"}
    /\ (SameCall /\ Phase \in {"DONE", "ERROR"}) => Phase' = Phase

C16_StatedTransitions == [][C16_StatedStep]_vars

\* C16, amended: the transitions of a call are INIT to READING, READING
\* to READING, READING to FINALIZING, FINALIZING to DONE, and to ERROR
\* from INIT (gzip.open raises), from READING and from FINALIZING
\* (os.replace or ckpt.unlink raises); DONE and ERROR are terminal: the
\* call makes no further step from them but the one that ends it
C16_Step ==
    /\ (SameCall /\ Phase' # Phase) =>
          PhaseStep \in { <<"INIT", "READING">>, <<"READING", "FINALIZING">>,
                          <<"FINALIZING", "DONE">>, <<"INIT", "ERROR">>,
                          <<"READING", "ERROR">>, <<"FINALIZING", "ERROR">> }
    /\ (runPc = "running" /\ Phase \in {"DONE", "ERROR"} /\ vars' # vars) =>
          Phase' \in {"NONE", "INIT"} /\ (di' # di \/ runPc' # "running")

C16_Transitions == [][C16_Step]_vars

\* ERROR entered from FINALIZING: the rename or the unlink raised
C16_Witness ==
    /\ Phase = "ERROR"
    /\ exc \in {"replace", "unlink"}

(***************************************************************************)
(* C17.  Under kills and restarts alone, every dataset that has a source  *)
(* folder eventually reaches DONE for good with its final artifact        *)
(* present and its checkpoint and part-file absent, and no call reads a   *)
(* file at or below the name of the checkpoint it loaded.                 *)
(***************************************************************************)
Done(d) ==
    /\ status[d] = "done"
    /\ final[d] # None
    /\ ckpt[d] = None
    /\ part[d] = None

NoCheckpointedFileRead ==
    \A n \in Range(reads) : last_done = None \/ StrLess(Val(last_done), n)

C17_RestartsConverge ==
    /\ <>[](\A d \in Datasets : raw[d].present => Done(d))
    /\ []NoCheckpointedFileRead

\* the same for the datasets none of whose lines is JSON that is not an
\* object
OnlyObjects(d) ==
    \A f \in raw[d].files : \A i \in 1..Len(f.lines) : f.lines[i].kind # "nonobj"

C17_ObjectsOnlyConverge ==
    /\ <>[](\A d \in Datasets : (raw[d].present /\ OnlyObjects(d)) => Done(d))
    /\ []NoCheckpointedFileRead

(***************************************************************************)
(* C18.  When process opens the part-file, its existing content is        *)
(* discarded exactly when the row count loaded from the checkpoint is 0   *)
(* (no checkpoint, or one that records zero rows); with a nonzero row     *)
(* count the content is kept, and what the call writes comes after it.    *)
(***************************************************************************)
C18_Loaded ==
    (runPc = "running" /\ pc = "open") =>
        rows_done = (IF ckpt[ds] = None THEN 0 ELSE Val(ckpt[ds]).rows)

C18_OpenStep ==
    /\ (runPc = "running" /\ pc = "open" /\ pc' = "loop") =>
          /\ part'[ds] # None
          /\ rows_done = 0 => Val(part'[ds]) = << >>
          /\ (rows_done # 0 /\ part[ds] # None) => part'[ds] = part[ds]
          /\ part[ds] = None => Val(part'[ds]) = << >>
    /\ (runPc = "running" /\ gz = "open" /\ part'[ds] # part[ds]) =>
          /\ part'[ds] # None
          /\ IsPrefix(Val(part[ds]), Val(part'[ds]))
          /\ IsPrefix(Val(part'[ds]), Val(part[ds]) \o gzbuf)

C18_OpenMode == []C18_Loaded /\ [][C18_OpenStep]_vars

\* a part-file with lines has been opened under a checkpoint with a
\* nonzero row count, and they are still there
C18_Witness ==
    /\ runPc = "running" /\ pc = "loop" /\ fi = 1
    /\ rows_done > 0
    /\ reads = << >>
    /\ Len(Val(part[ds])) > 0

(***************************************************************************)
(* C19.  While the loop of process is at a file whose extension is not a  *)
(* recognised one, no step of the call changes the checkpoint, the        *)
(* part-file, the row count, the malformed count, dup_seen or the column  *)
(* set, and none enters the exception handler.                            *)
(***************************************************************************)
AtUnrecognised ==
    /\ runPc = "running"
    /\ pc \in {"loop", "rec", "drained"}
    /\ fi <= Len(listing)
    /\ FormatOf(src) = "other"

C19_Step ==
    (AtUnrecognised /\ runPc' = "running" /\ di' = di) =>
        /\ ckpt' = ckpt
        /\ part' = part
        /\ stats' = stats
        /\ cols_seen' = cols_seen
        /\ pc' # "except"

C19_UnrecognisedFrame == [][C19_Step]_vars

(***************************************************************************)
(* C20.  The digest set, dup_seen, the malformed count and the column set *)
(* are empty (false, zero) when a call of process reaches its try, and    *)
(* hold nothing but what the files read in this call gave them: dup_seen  *)
(* is set only when two rows or objects of the files read in this call    *)
(* have the same digest, whatever other datasets or the files read before *)
(* a resume hold.                                                         *)
(***************************************************************************)
\* the rows and objects of file n of dataset d after clean_cols, each with
\* its place
PlacedRecords(d, n) ==
    LET lines == FileOf(d, n).lines
    IN  {<< n, i, clean_cols(lines[i].rec) >> :
            i \in {j \in 1..Len(lines) : lines[j].kind = "obj"}}

RecordsOf(d, names) == UNION {PlacedRecords(d, n) : n \in Range(names)}

C20_FreshPerCall ==
    /\ (runPc = "running" /\ pc = "open") =>
          /\ hashes = {}
          /\ cols_seen = {}
          /\ stats.bad_json = 0
          /\ ~stats.dup_seen
    /\ hashes \subseteq {row_hash(r[3]) : r \in RecordsOf(ds, reads)}
    /\ cols_seen \subseteq ColumnsOf(ds, reads)
    /\ stats.bad_json <= SumKind(ds, reads, {"bad", "nonobj"})
    /\ stats.dup_seen =>
          \E r, q \in RecordsOf(ds, reads) :
              r # q /\ row_hash(r[3]) = row_hash(q[3])

\* a resumed call has read a record equal to one of a file the checkpoint
\* covers, and dup_seen is not set
C20_Witness ==
    /\ runPc = "running" /\ pc = "rec"
    /\ last_done # None
    /\ ~stats.dup_seen
    /\ \E i \in 1..Len(seen) :
          \E r \in RecordsOf(ds, Sorted({n \in AllNames(ds) :
                                            StrLeq(n, Val(last_done))})) :
              row_hash(r[3]) = row_hash(seen[i])

(***************************************************************************)
(* C21.  clean_cols maps every key to the part after its last "." (a key  *)
(* without "." is kept), and when several keys of a record normalize to   *)
(* the same name the result holds one entry for that name, with the value *)
(* of the last such key in the order of the record.                       *)
(***************************************************************************)
\* the part of k after its last ".", k itself when it has none
AfterLastDot(k) ==
    CHOOSE s \in {SubSeq(k, m, Len(k)) : m \in 1..(Len(k) + 1)} :
        /\ \A i \in 1..Len(s) : s[i] # "."
        /\ Len(s) = Len(k) \/ k[Len(k) - Len(s)] = "."

\* out is rec after normalization, the last value winning
LastValueWins(rec, out) ==
    /\ \A i, j \in 1..Len(out) : out[i][1] = out[j][1] => i = j
    /\ Keys(out) = {AfterLastDot(rec[i][1]) : i \in 1..Len(rec)}
    /\ \A j \in 1..Len(out) :
          \E i \in 1..Len(rec) :
              /\ AfterLastDot(rec[i][1]) = out[j][1]
              /\ \A m \in (i + 1)..Len(rec) : AfterLastDot(rec[m][1]) # out[j][1]
              /\ out[j][2] = rec[i][2]

\* the object of a.json
TheRecord == (CHOOSE f \in raw["orders"].files : TRUE).lines[1].rec

C21_CleanCols ==
    /\ LastValueWins(TheRecord, clean_cols(TheRecord))
    /\ Len(seen) = 1 =>
          /\ LastValueWins(TheRecord, seen[1])
          /\ gz = "open" => gzbuf = << JsonDumps(seen[1], FALSE) >>

\* a record of three pairs has been read, two of its keys normalize to
\* the same name and carry different values, a dotted one the last
C21_Witness ==
    /\ Len(seen) = 1
    /\ Len(TheRecord) = 3
    /\ Len(seen[1]) = 2
    /\ \E i, j \in 1..3 :
          /\ i < j
          /\ AfterLastDot(TheRecord[i][1]) = AfterLastDot(TheRecord[j][1])
          /\ TheRecord[i][2] # TheRecord[j][2]
          /\ TheRecord[j][1] # AfterLastDot(TheRecord[j][1])
          /\ << AfterLastDot(TheRecord[j][1]), TheRecord[j][2] >> \in Range(seen[1])

(***************************************************************************)
(* C22.  Between two clearings of the checkpoint of a dataset, over all   *)
(* the runs in between, every save of the checkpoint names a file         *)
(* strictly later in sort order than the name saved before and records a  *)
(* row count that is not smaller; nothing but a save or a clearing        *)
(* changes a checkpoint.                                                  *)
(***************************************************************************)
SaveStep == runPc = "running" /\ pc = "drained" /\ pc' = "loop"

C22_Step ==
    /\ (SaveStep /\ ckpt[ds] # None) =>
          /\ ckpt'[ds] # None
          /\ StrLess(Val(ckpt[ds]).name, Val(ckpt'[ds]).name)
          /\ Val(ckpt[ds]).rows <= Val(ckpt'[ds]).rows
    /\ \A d \in Datasets :
          (ckpt'[d] # ckpt[d] /\ ~(SaveStep /\ d = ds)) => ckpt'[d] = None

C22_CkptMonotone == [][C22_Step]_vars

\* a resumed call has saved over the checkpoint an earlier run left, with
\* a later name and more rows
C22_Witness ==
    /\ runPc = "running" /\ pc = "loop"
    /\ last_done # None
    /\ rows_done > 0
    /\ ckpt[ds] # None
    /\ StrLess(Val(last_done), Val(ckpt[ds]).name)
    /\ Val(ckpt[ds]).rows > rows_done

(***************************************************************************)
(* C23.  When os.replace raises (the stream is closed, the part-file      *)
(* complete), neither that step nor the handler changes the checkpoint,   *)
(* the part-file or the final artifact.  From then on the part-file stays *)
(* as it was left; a later call of process for the dataset gives no file  *)
(* a reader, and its rename makes the kept part-file the final artifact,  *)
(* line for line.                                                         *)
(***************************************************************************)
C23_Step ==
    /\ (runPc = "running" /\ pc = "replace" /\ pc' = "except") =>
          fsVars' = fsVars /\ part[ds] # None /\ kept'[ds] = part[ds]
    /\ (runPc = "running" /\ pc = "except" /\ exc = "replace") =>
          fsVars' = fsVars
    /\ (runPc = "running" /\ pc = "replace" /\ pc' = "unlink"
          /\ kept[ds] # None) =>
          /\ final'[ds] = kept[ds]
          /\ part'[ds] = None

C23_Kept ==
    /\ \A d \in Datasets : kept[d] # None => part[d] = kept[d]
    /\ (runPc = "running" /\ kept[ds] # None
          /\ ~(pc = "except" /\ exc = "replace")) =>
          /\ reads = << >>
          /\ seen = << >>
          /\ pc \notin {"rec", "drained"}

C23_RenameFailure == []C23_Kept /\ [][C23_Step]_vars

\* a later call has gone through all the files of the folder, read none,
\* closed the stream, and is at the rename with the kept part-file
C23_Witness ==
    /\ runPc = "running" /\ pc = "replace"
    /\ kept[ds] # None
    /\ Len(Val(kept[ds])) > 0
    /\ part[ds] = kept[ds]
    /\ Len(listing) >= 2
    /\ reads = << >>

(***************************************************************************)
(* C24.  When a call of process reaches its summary and the call for the  *)
(* same dataset before it had reached its summary too, the final artifact *)
(* has the same lines as after that call, the summary is the same, and no *)
(* checkpoint or part-file is left.                                       *)
(***************************************************************************)
C24_RerunIdempotent ==
    (runPc = "running" /\ pc = "print" /\ prevRun[ds] # None) =>
        /\ Val(final[ds]) = Val(prevRun[ds]).lines
        /\ Summary = Val(prevRun[ds]).summary
        /\ ckpt[ds] = None
        /\ part[ds] = None

\* the same when the earlier call had loaded no checkpoint
C24_RerunOfFreshRun ==
    (runPc = "running" /\ pc = "print" /\ prevRun[ds] # None
       /\ Val(prevRun[ds]).last_done = None) =>
        /\ Val(final[ds]) = Val(prevRun[ds]).lines
        /\ Summary = Val(prevRun[ds]).summary
        /\ ckpt[ds] = None
        /\ part[ds] = None

(***************************************************************************)
(* C25.  The summary of a call that loaded a checkpoint and completes     *)
(* shows as rows the checkpointed row count plus the records written in   *)
(* this call, and as bad_json the malformed lines of the files read in    *)
(* this call alone: those of the files the checkpoint covers are not in   *)
(* it.                                                                    *)
(***************************************************************************)
\* the files of the current dataset at or below the loaded checkpoint
Covered == Sorted({n \in AllNames(ds) : StrLeq(n, Val(last_done))})

C25_ResumedSummary ==
    (runPc = "running" /\ pc = "print" /\ last_done # None) =>
        /\ Summary.rows = rows_done + SumKind(ds, reads, {"obj"})
        /\ Summary.rows = rows_done + Len(seen)
        /\ Summary.bad_json = SumKind(ds, reads, {"bad", "nonobj"})
        /\ Range(reads) \cap Range(Covered) = {}

\* a resumed call is at its summary with rows carried over from the
\* checkpoint, and a file the checkpoint covers has a malformed line that
\* the summary does not count
C25_Witness ==
    /\ runPc = "running" /\ pc = "print"
    /\ last_done # None
    /\ rows_done > 0
    /\ SumKind(ds, Covered, {"bad"}) > 0
    /\ Summary.bad_json = 0

====
